---- MODULE Spec2Model ----
(***************************************************************************)
(* A model of the two batch jobs of the iMicroSeq dashboard repository:    *)
(*   scripts/build_dashboard_data.py  (Dashboard Aggregator)               *)
(*   scripts/build_quant_tsv.py       (Quantitative Nester)                *)
(*                                                                         *)
(* Python strings are modelled as sequences of one-character strings, so   *)
(* that stripping, regular-expression substitution, splitting, formatting  *)
(* and parsing are computed character by character as the code does.       *)
(* Each job (and each pure helper) has its own specification over the      *)
(* shared variables; the variables a specification does not use keep       *)
(* their initial value.                                                    *)
(***************************************************************************)
EXTENDS Integers, Sequences, FiniteSets, TLC

VARIABLES
    pc,               \* position in the running job
    rows,             \* rows = list(csv.DictReader(f))
    idx,              \* position of the `for row in rows` loop (1-based)
    input,            \* the argument trim_brackets was first called with
    s,                \* trim_brackets: parameter s of the current call
    out,              \* trim_brackets: local out
    ret1,             \* value returned by trim_brackets(input)
    ret2,             \* value returned by trim_brackets(ret1)
    min_year, max_year, growth_by_year, growth, timeSpan,
    site_counts, top_sites, category_counts, breakdown,
    province_coords, coord_counts, coverage_points,
    raw, kind, value, \* parse_lat_lon: parameters and returned value
    table, exists, coords,   \* load_province_coords: csv rows, file exists, dict
    fieldnames, out_rows, nested, out_data

ctlVars    == <<pc, rows, idx>>
trimVars   == <<input, s, out, ret1, ret2>>
growthVars == <<min_year, max_year, growth_by_year, growth, timeSpan>>
breakVars  == <<site_counts, top_sites, category_counts, breakdown>>
covVars    == <<province_coords, coord_counts, coverage_points>>
parseVars  == <<raw, kind, value>>
provVars   == <<table, exists, coords>>
quantVars  == <<fieldnames, out_rows, nested, out_data>>
vars == <<ctlVars, trimVars, growthVars, breakVars, covVars, parseVars,
          provVars, quantVars>>

(***************************************************************************)
(* Python values                                                           *)
(***************************************************************************)
\* Python's None.  Strings are tuples of one-character strings, so the
\* one-element tuple <<"None">> is no string and compares with every string.
None == <<"None">>

\* str.strip() removes these; the inputs use the blank only.
Whitespace == {" "}

Max(a, b) == IF a >= b THEN a ELSE b
Min(a, b) == IF a <= b THEN a ELSE b

\* All strings over the alphabet of length at most n.
StringsUpTo(alphabet, n) == UNION {[1..k -> alphabet] : k \in 0..n}

RECURSIVE lstrip(_)
lstrip(str) ==
    IF str # <<>> /\ Head(str) \in Whitespace THEN lstrip(Tail(str)) ELSE str

RECURSIVE rstrip(_)
rstrip(str) ==
    IF str # <<>> /\ str[Len(str)] \in Whitespace
    THEN rstrip(SubSeq(str, 1, Len(str) - 1))
    ELSE str

\* str.strip()
strip(str) == rstrip(lstrip(str))

\* c in str, for a one-character c
Contains(str, c) == \E k \in 1..Len(str) : str[k] = c

\* (x or "") for a value that is a string or None
OrEmpty(x) == IF x = None THEN <<>> ELSE x

(***************************************************************************)
(* re.sub(r"\[[^\]]*\]", "", str)                                          *)
(***************************************************************************)
\* The position of the first "]" at or after position i, 0 when there is none.
RECURSIVE FirstClose(_, _)
FirstClose(str, i) ==
    IF i > Len(str) THEN 0
    ELSE IF str[i] = "]" THEN i
    ELSE FirstClose(str, i + 1)

\* Leftmost non-overlapping matches, scanning from position i: a match starts
\* at a "[" and runs to the first "]" after it ([^\]]* also consumes "[").
RECURSIVE ReSubFrom(_, _)
ReSubFrom(str, i) ==
    IF i > Len(str) THEN <<>>
    ELSE IF str[i] = "[" /\ FirstClose(str, i + 1) # 0
         THEN ReSubFrom(str, FirstClose(str, i + 1) + 1)
         ELSE <<str[i]>> \o ReSubFrom(str, i + 1)

ReSub(str) == ReSubFrom(str, 1)

(***************************************************************************)
(* trim_brackets (build_dashboard_data.py), one step per loop pass         *)
(***************************************************************************)
\* Inputs of the stand-alone runs of trim_brackets.
MaxLen == 5
TrimAlphabet == {"a", "[", "]", " "}
TrimInputs == StringsUpTo(TrimAlphabet, MaxLen) \cup {None}

\* The program positions at which a call of trim_brackets is inside its loop.
TrimLoopPcs == {"trim1", "trim2", "count_trim", "cat_trim"}

\* The value of out the loop is entered with: out = (s or "").strip()
TrimEnter(arg) == strip(OrEmpty(arg))

\* One pass of `while "[" in out: out = re.sub(...)`.
TrimLoop ==
    /\ pc \in TrimLoopPcs
    /\ Contains(out, "[")
    /\ out' = ReSub(out)
    /\ UNCHANGED <<ctlVars, input, s, ret1, ret2, growthVars, breakVars,
                   covVars, parseVars, provVars, quantVars>>

\* The value returned once the loop condition is false.
TrimReturn(o) == strip(o)

TrimIdle == input = None /\ s = None /\ out = <<>> /\ ret1 = None /\ ret2 = None
GrowthIdle ==
    /\ min_year = 0 /\ max_year = 0 /\ growth_by_year = <<>>
    /\ growth = <<>> /\ timeSpan = None
BreakIdle ==
    /\ site_counts = <<>> /\ top_sites = <<>>
    /\ category_counts = <<>> /\ breakdown = <<>>
CovIdle == province_coords = <<>> /\ coord_counts = <<>> /\ coverage_points = <<>>
ParseIdle == raw = None /\ kind = "lat" /\ value = None
ProvIdle == table = <<>> /\ exists = FALSE /\ coords = <<>>
QuantIdle == fieldnames = {} /\ out_rows = <<>> /\ nested = <<>> /\ out_data = <<>>

\* trim_brackets(input), called from the top level.
TrimCall1 ==
    /\ pc = "call1"
    /\ s' = input
    /\ IF input = None
       THEN ret1' = <<>> /\ out' = out /\ pc' = "call2"     \* return ""
       ELSE ret1' = ret1 /\ out' = TrimEnter(input) /\ pc' = "trim1"
    /\ UNCHANGED <<rows, idx, input, ret2, growthVars, breakVars, covVars,
                   parseVars, provVars, quantVars>>

TrimRet1 ==
    /\ pc = "trim1"
    /\ ~Contains(out, "[")
    /\ ret1' = TrimReturn(out)
    /\ pc' = "call2"
    /\ UNCHANGED <<rows, idx, input, s, out, ret2, growthVars, breakVars,
                   covVars, parseVars, provVars, quantVars>>

\* trim_brackets(trim_brackets(input)): the second application.
TrimCall2 ==
    /\ pc = "call2"
    /\ s' = ret1
    /\ out' = TrimEnter(ret1)
    /\ pc' = "trim2"
    /\ UNCHANGED <<rows, idx, input, ret1, ret2, growthVars, breakVars,
                   covVars, parseVars, provVars, quantVars>>

TrimRet2 ==
    /\ pc = "trim2"
    /\ ~Contains(out, "[")
    /\ ret2' = TrimReturn(out)
    /\ pc' = "done"
    /\ UNCHANGED <<rows, idx, input, s, out, ret1, growthVars, breakVars,
                   covVars, parseVars, provVars, quantVars>>

InitTrim ==
    /\ pc = "call1" /\ rows = <<>> /\ idx = 1
    /\ input \in TrimInputs
    /\ s = None /\ out = <<>> /\ ret1 = None /\ ret2 = None
    /\ GrowthIdle /\ BreakIdle /\ CovIdle /\ ParseIdle /\ ProvIdle /\ QuantIdle

NextTrim == TrimCall1 \/ TrimLoop \/ TrimRet1 \/ TrimCall2 \/ TrimRet2

SpecTrim == InitTrim /\ [][NextTrim]_vars

\* The interpreter always runs the next statement of a running call.
FairSpecTrim == SpecTrim /\ WF_vars(NextTrim)

(***************************************************************************)
(* Properties of trim_brackets                                             *)
(***************************************************************************)
\* The bracket depth after the first k characters.
RECURSIVE DepthAt(_, _)
DepthAt(str, k) ==
    IF k = 0 THEN 0
    ELSE DepthAt(str, k - 1)
         + (IF str[k] = "[" THEN 1 ELSE IF str[k] = "]" THEN -1 ELSE 0)

\* Every "[" is closed and every "]" closes one: the string is made of
\* [...] groups, possibly nested, and text outside them.
WellBracketed(str) ==
    /\ \A k \in 1..Len(str) : DepthAt(str, k) >= 0
    /\ DepthAt(str, Len(str)) = 0

Count(str, c) == Cardinality({k \in 1..Len(str) : str[k] = c})

\* The text of the string: its characters other than blanks, from position k
\* on, keeping only those outside every bracket group when outsideOnly.
RECURSIVE TextFrom(_, _, _)
TextFrom(str, k, outsideOnly) ==
    IF k > Len(str) THEN <<>>
    ELSE (IF /\ str[k] \notin Whitespace \cup {"[", "]"}
             /\ (outsideOnly => DepthAt(str, k) = 0)
          THEN <<str[k]>> ELSE <<>>) \o TextFrom(str, k + 1, outsideOnly)

\* C6: trim_brackets is idempotent, and applied to a string with multiple or
\* nested [...] groups it returns no part of any group: no bracket and only
\* the text that stood outside the groups.
TrimIdempotentRemovesAll ==
    pc = "done" =>
        /\ ret2 = ret1
        /\ (input # None /\ WellBracketed(input) /\ Count(input, "[") >= 2) =>
               /\ ~Contains(ret1, "[")
               /\ ~Contains(ret1, "]")
               /\ TextFrom(ret1, 1, FALSE) = TextFrom(input, 1, TRUE)

\* C10: trim_brackets terminates and returns for every input string (both
\* applications of the run return, so the run reaches its end).
TrimTerminates == <>(pc = "done")

(***************************************************************************)
(* Dashboard Aggregator: yearly growth series and time span                *)
(* (build_dashboard_data.py, main, lines 110-112, 140-159, 220-231).       *)
(* A row of this specification is the row's "sample collection start date" *)
(* column, the only column these lines read.                               *)
(***************************************************************************)
Digits == {"0", "1", "2", "3", "4", "5", "6", "7", "8", "9"}

DigitVal(c) ==
    CASE c = "0" -> 0 [] c = "1" -> 1 [] c = "2" -> 2 [] c = "3" -> 3
      [] c = "4" -> 4 [] c = "5" -> 5 [] c = "6" -> 6 [] c = "7" -> 7
      [] c = "8" -> 8 [] c = "9" -> 9

\* int(str) for a string of decimal digits
RECURSIVE IntOfDigits(_)
IntOfDigits(str) ==
    IF str = <<>> THEN 0
    ELSE 10 * IntOfDigits(SubSeq(str, 1, Len(str) - 1)) + DigitVal(str[Len(str)])

\* re.match(r"^(\d{4})", date_str) matches
YearMatches(date_str) ==
    Len(date_str) >= 4 /\ \A k \in 1..4 : date_str[k] \in Digits

\* int(ym.group(1))
YearOf(date_str) == IntOfDigits(SubSeq(date_str, 1, 4))

\* float("inf") and float("-inf"): years have four digits, so every year lies
\* strictly between the two.
PosInf == 10000
NegInf == -1

\* dict.get(key, default) of a dict modelled as a function
Get(dict, key, default) == IF key \in DOMAIN dict THEN dict[key] ELSE default

\* dict[key] = dict.get(key, 0) + 1
Incr(dict, key) ==
    IF key \in DOMAIN dict THEN [dict EXCEPT ![key] = @ + 1]
    ELSE dict @@ (key :> 1)

\* Lines 156-159: the points for the years y..y_max, entered with cumulative.
RECURSIVE GrowthNoCumulative(_, _, _, _)
GrowthNoCumulative(y, y_max, cumulative, by_year) ==
    IF y > y_max THEN <<>>
    ELSE <<[year |-> y, records |-> Get(by_year, y, 0)]>>
         \o GrowthNoCumulative(y + 1, y_max, cumulative, by_year)

RECURSIVE GrowthFrom(_, _, _, _)
GrowthFrom(y, y_max, cumulative, by_year) ==
    IF y > y_max THEN <<>>
    ELSE <<[year |-> y, records |-> cumulative + Get(by_year, y, 0)]>>
         \o GrowthFrom(y + 1, y_max, cumulative + Get(by_year, y, 0), by_year)

\* Values of the date column.
DateInputs ==
    { <<>>,
      <<"2", "0", "2", "1">>,
      <<"2", "0", "2", "1", "-", "0", "3">>,
      <<"2", "0", "2", "3", "-", "0", "1", "-", "0", "5">>,
      <<" ", "2", "0", "2", "2">>,
      <<"n", "/", "a">>,
      <<"2", "0", "2">> }

MaxDateRows == 3

\* One pass of `for row in rows` (lines 140-150).
GrowthScanRow ==
    /\ pc = "scan"
    /\ idx <= Len(rows)
    /\ LET date_str == strip(OrEmpty(rows[idx])) IN
       IF date_str # <<>> /\ YearMatches(date_str)
       THEN /\ min_year' = Min(min_year, YearOf(date_str))
            /\ max_year' = Max(max_year, YearOf(date_str))
            /\ growth_by_year' = Incr(growth_by_year, YearOf(date_str))
       ELSE UNCHANGED <<min_year, max_year, growth_by_year>>
    /\ idx' = idx + 1
    /\ UNCHANGED <<pc, rows, growth, timeSpan, trimVars, breakVars, covVars,
                   parseVars, provVars, quantVars>>

\* Lines 152-159, once the loop over the rows has ended.
GrowthBuild ==
    /\ pc = "scan"
    /\ idx > Len(rows)
    /\ LET y_min == IF min_year # PosInf THEN min_year ELSE 0
           y_max == IF max_year # NegInf THEN max_year ELSE 0
       IN  growth' = GrowthFrom(y_min, y_max, 0, growth_by_year)
    /\ pc' = "payload"
    /\ UNCHANGED <<rows, idx, min_year, max_year, growth_by_year, timeSpan,
                   trimVars, breakVars, covVars, parseVars, provVars, quantVars>>

\* Lines 220-231: summary.timeSpan of the payload (growth is emitted as is).
GrowthPayload ==
    /\ pc = "payload"
    /\ timeSpan' =
          [start |-> IF min_year # PosInf THEN <<"int", min_year>> ELSE None,
           end   |-> IF max_year # NegInf THEN <<"int", max_year>> ELSE None]
    /\ pc' = "done"
    /\ UNCHANGED <<rows, idx, min_year, max_year, growth_by_year, growth,
                   trimVars, breakVars, covVars, parseVars, provVars, quantVars>>

InitGrowth ==
    /\ pc = "scan" /\ idx = 1
    /\ rows \in StringsUpTo(DateInputs, MaxDateRows)
    /\ min_year = PosInf /\ max_year = NegInf /\ growth_by_year = <<>>
    /\ growth = <<>> /\ timeSpan = None
    /\ TrimIdle /\ BreakIdle /\ CovIdle /\ ParseIdle /\ ProvIdle /\ QuantIdle

NextGrowth == GrowthScanRow \/ GrowthBuild \/ GrowthPayload

SpecGrowth == InitGrowth /\ [][NextGrowth]_vars

\* The rows whose date parses to a year, and the years they parse to.
ParsedRows == {i \in 1..Len(rows) : YearMatches(strip(rows[i]))}
ParsedYear(i) == YearOf(strip(rows[i]))
ParsedYears == {ParsedYear(i) : i \in ParsedRows}
MinOf(S) == CHOOSE x \in S : \A y \in S : x <= y
MaxOf(S) == CHOOSE x \in S : \A y \in S : x >= y

\* C1: when no record's start date parses to a year, the emitted growth
\* series is the empty list and the time span is null/null.
NoDatesEmptySeries ==
    (pc = "done" /\ ParsedRows = {}) =>
        /\ growth = <<>>
        /\ timeSpan = [start |-> None, end |-> None]

\* C2: with at least one parsed year the series has exactly one point per
\* year from the least to the greatest parsed year, in ascending order; its
\* values never decrease; a year no record falls in repeats the preceding
\* value; and the last value is the number of records whose date parsed.
GrowthSeriesShape ==
    (pc = "done" /\ ParsedRows # {}) =>
        /\ Len(growth) = MaxOf(ParsedYears) - MinOf(ParsedYears) + 1
        /\ \A k \in 1..Len(growth) : growth[k].year = MinOf(ParsedYears) + k - 1
        /\ \A k \in 2..Len(growth) : growth[k - 1].records <= growth[k].records
        /\ \A k \in 2..Len(growth) :
              growth[k].year \notin ParsedYears =>
                  growth[k].records = growth[k - 1].records
        /\ growth[Len(growth)].records = Cardinality(ParsedRows)

\* A finished run over three dated records that leave a year without records.
GrowthSeriesShapeWitness ==
    /\ pc = "done"
    /\ Cardinality(ParsedRows) = 3
    /\ Len(growth) = 3
    /\ growth[2].year \notin ParsedYears
    /\ growth[3].records = 3

(***************************************************************************)
(* Floats.  A float is <<sign, mag>>: sign is "+" or "-" and mag its        *)
(* magnitude in units of 1/Scale, so that -0.0 = <<"-", 0>> and             *)
(* 0.0 = <<"+", 0>> are two values, as in IEEE 754.  The decimals of the    *)
(* inputs have at most FracDigits places and convert exactly.               *)
(***************************************************************************)
\* Inputs of the stand-alone runs of parse_lat_lon are the strings over an
\* alphabet up to this length (and the values the documentation names).
MaxCoordLen == 4

FracDigits == MaxCoordLen - 1
Scale == 10 ^ FracDigits

\* The number a float stands for, times Scale (both zeros stand for 0).
Num(f) == IF f[1] = "-" THEN 0 - f[2] ELSE f[2]

\* Python's ==, < and > on floats
FloatEq(f, g) == Num(f) = Num(g)
FloatLt(f, g) == Num(f) < Num(g)
FloatGt(f, g) == Num(f) > Num(g)

\* abs(f) and -abs(f)
Abs(f) == <<"+", f[2]>>
NegAbs(f) == <<"-", f[2]>>

\* The float of an integer literal of the code, such as 90 and -180.
FloatOfInt(n) == IF n < 0 THEN <<"-", (0 - n) * Scale>> ELSE <<"+", n * Scale>>

\* The end of the longest run of decimal digits that starts at position i
\* (i - 1 when str[i] is no digit).
RECURSIVE DigitRunEnd(_, _)
DigitRunEnd(str, i) ==
    IF i <= Len(str) /\ str[i] \in Digits THEN DigitRunEnd(str, i + 1) ELSE i - 1

\* float(str) for str of the form -?\d+(\.\d+)?
FloatOfDecimal(str) ==
    LET neg   == str # <<>> /\ str[1] = "-"
        first == IF neg THEN 2 ELSE 1
        iEnd  == DigitRunEnd(str, first)
        frac  == IF iEnd < Len(str) THEN SubSeq(str, iEnd + 2, Len(str)) ELSE <<>>
    IN  << IF neg THEN "-" ELSE "+",
           IntOfDigits(SubSeq(str, first, iEnd)) * Scale
             + IntOfDigits(frac) * 10 ^ (FracDigits - Len(frac)) >>

Uppers == <<"A", "B", "C", "D", "E", "F", "G", "H", "I", "J", "K", "L", "M",
            "N", "O", "P", "Q", "R", "S", "T", "U", "V", "W", "X", "Y", "Z">>
Lowers == <<"a", "b", "c", "d", "e", "f", "g", "h", "i", "j", "k", "l", "m",
            "n", "o", "p", "q", "r", "s", "t", "u", "v", "w", "x", "y", "z">>

LowerChar(c) ==
    IF \E k \in 1..26 : Uppers[k] = c
    THEN Lowers[CHOOSE k \in 1..26 : Uppers[k] = c] ELSE c
UpperChar(c) ==
    IF \E k \in 1..26 : Lowers[k] = c
    THEN Uppers[CHOOSE k \in 1..26 : Lowers[k] = c] ELSE c

\* str.lower() and str.upper()
Lower(str) == [k \in 1..Len(str) |-> LowerChar(str[k])]
Upper(str) == [k \in 1..Len(str) |-> UpperChar(str[k])]

\* needle in hay
IsSubstr(needle, hay) ==
    \E k \in 0..(Len(hay) - Len(needle)) :
        SubSeq(hay, k + 1, k + Len(needle)) = needle

(***************************************************************************)
(* parse_lat_lon (build_dashboard_data.py, lines 48-70)                    *)
(***************************************************************************)
DashDash == <<"-", "-">>
NotProvided == <<"n", "o", "t", " ", "p", "r", "o", "v", "i", "d", "e", "d">>

\* re.match(r"(-?\d+(?:\.\d+)?)\s*([NSEW])?", str, re.I): the position where
\* the digits of the integer part start, and where group 1 ends (0: no match).
NumStart(str) == IF str # <<>> /\ str[1] = "-" THEN 2 ELSE 1
NumEnd(str) ==
    LET iEnd == DigitRunEnd(str, NumStart(str)) IN
    IF iEnd < NumStart(str) THEN 0
    ELSE IF /\ iEnd + 1 <= Len(str) /\ str[iEnd + 1] = "."
            /\ DigitRunEnd(str, iEnd + 2) >= iEnd + 2
         THEN DigitRunEnd(str, iEnd + 2)
         ELSE iEnd

\* The end of the run of whitespace (\s*) that starts at position i.
RECURSIVE SpaceRunEnd(_, _)
SpaceRunEnd(str, i) ==
    IF i <= Len(str) /\ str[i] \in Whitespace THEN SpaceRunEnd(str, i + 1) ELSE i - 1

\* m.group(2) or "": the hemisphere letter after the number and the blanks.
HemiGroup(str) ==
    LET h == SpaceRunEnd(str, NumEnd(str) + 1) + 1 IN
    IF h <= Len(str) /\ UpperChar(str[h]) \in {"N", "S", "E", "W"}
    THEN <<str[h]>> ELSE <<>>

\* Lines 61-70: the sign by the hemisphere letter, then the range of the axis
\* (the first definition checks a latitude against the range of a longitude).
SignAndRangeLatAs180(v, hemi, k) ==
    LET signed == IF hemi \in {<<"S">>, <<"W">>} THEN NegAbs(v)
                  ELSE IF hemi \in {<<"N">>, <<"E">>} THEN Abs(v)
                  ELSE v
    IN  IF FloatLt(signed, FloatOfInt(-180)) \/ FloatGt(signed, FloatOfInt(180))
        THEN None
        ELSE signed

SignAndRange(v, hemi, k) ==
    LET signed == IF hemi \in {<<"S">>, <<"W">>} THEN NegAbs(v)
                  ELSE IF hemi \in {<<"N">>, <<"E">>} THEN Abs(v)
                  ELSE v
    IN  IF k = "lat" /\ (FloatLt(signed, FloatOfInt(-90)) \/ FloatGt(signed, FloatOfInt(90)))
        THEN None
        ELSE IF k = "lon" /\ (FloatLt(signed, FloatOfInt(-180)) \/ FloatGt(signed, FloatOfInt(180)))
        THEN None
        ELSE signed

\* float(m.group(1)) cannot raise ValueError for a string the pattern matched.
parse_lat_lon(r, k) ==
    IF r = None THEN None
    ELSE LET str == strip(OrEmpty(r)) IN
         IF str = <<>> \/ str = DashDash \/ IsSubstr(NotProvided, Lower(str))
         THEN None
         ELSE IF NumEnd(str) = 0 THEN None
         ELSE SignAndRange(FloatOfDecimal(SubSeq(str, 1, NumEnd(str))),
                           Upper(HemiGroup(str)), k)

CoordAlphabet == {"-", "0", "1", "9", ".", " ", "s", "E"}
CoordExamples ==
    { None,
      NotProvided,
      <<"N", "o", "t", " ", "P", "r", "o", "v", "i", "d", "e", "d">>,
      <<"4", "5", ".", "5", " ", "N">>,
      <<"4", "5", ".", "5", " ", "S">>,
      <<"2", "0", "0", " ", "N">>,
      <<"-", "1", "8", "0", " ", "w">>,
      <<"1", "8", "0", ".", "5", "W">> }
CoordInputs == StringsUpTo(CoordAlphabet, MaxCoordLen) \cup CoordExamples

ParseCall ==
    /\ pc = "call"
    /\ value' = parse_lat_lon(raw, kind)
    /\ pc' = "done"
    /\ UNCHANGED <<rows, idx, raw, kind, trimVars, growthVars, breakVars,
                   covVars, provVars, quantVars>>

InitParse ==
    /\ pc = "call" /\ rows = <<>> /\ idx = 1
    /\ raw \in CoordInputs
    /\ kind \in {"lat", "lon"}
    /\ value = None
    /\ TrimIdle /\ GrowthIdle /\ BreakIdle /\ CovIdle /\ ProvIdle /\ QuantIdle

NextParse == ParseCall

SpecParse == InitParse /\ [][NextParse]_vars

(***************************************************************************)
(* Properties of parse_lat_lon                                             *)
(***************************************************************************)
\* The input as the parser reads it, and the cases it treats as absent.
ParseText == IF raw = None THEN <<>> ELSE strip(raw)
ParseAbsent ==
    \/ raw = None
    \/ ParseText = <<>>
    \/ ParseText = DashDash
    \/ IsSubstr(NotProvided, Lower(ParseText))
StartsWithNumber == NumEnd(ParseText) # 0

\* The leading number with its sign set by the hemisphere letter after it.
ExpectedCoord ==
    LET number == FloatOfDecimal(SubSeq(ParseText, 1, NumEnd(ParseText)))
        letter == Upper(HemiGroup(ParseText))
    IN  IF letter = <<"S">> \/ letter = <<"W">> THEN <<"-", number[2]>>
        ELSE IF letter = <<"N">> \/ letter = <<"E">> THEN <<"+", number[2]>>
        ELSE number

AxisLimit(k) == IF k = "lat" THEN 90 * Scale ELSE 180 * Scale
InAxisRange(f, k) == 0 - AxisLimit(k) <= Num(f) /\ Num(f) <= AxisLimit(k)

\* C8: parse_lat_lon returns None for a null, empty, "--" or 'not provided'
\* input, for an input that does not start with a signed decimal number and
\* for a value outside the range of its axis; for every other input it
\* returns the leading number signed by the hemisphere letter after it (S/W
\* negative, N/E positive, the explicit sign kept without a letter); so every
\* result other than None lies in the range of its axis.
ParseLatLonContract ==
    pc = "done" =>
        /\ ParseAbsent => value = None
        /\ (~ParseAbsent /\ ~StartsWithNumber) => value = None
        /\ (~ParseAbsent /\ StartsWithNumber /\ ~InAxisRange(ExpectedCoord, kind))
               => value = None
        /\ (~ParseAbsent /\ StartsWithNumber /\ InAxisRange(ExpectedCoord, kind))
               => value = ExpectedCoord
        /\ value # None => InAxisRange(value, kind)
        /\ raw = <<"4", "5", ".", "5", " ", "N">> => value = <<"+", 455 * (Scale \div 10)>>
        /\ raw = <<"4", "5", ".", "5", " ", "S">> => value = <<"-", 455 * (Scale \div 10)>>
        /\ raw = <<"2", "0", "0", " ", "N">> => value = None

\* A latitude beyond 90 with a hemisphere letter has been refused although
\* it would be a valid longitude.
ParseLatLonContractWitness ==
    /\ pc = "done"
    /\ kind = "lat"
    /\ ~ParseAbsent /\ StartsWithNumber
    /\ HemiGroup(ParseText) = <<"s">>
    /\ InAxisRange(ExpectedCoord, "lon") /\ ~InAxisRange(ExpectedCoord, "lat")
    /\ value = None

(***************************************************************************)
(* Insertion-ordered dicts and sorted()                                    *)
(***************************************************************************)
\* A dict whose iteration order matters is the sequence of its items, in
\* insertion order: [key |-> k, count |-> n].
ODictHas(d, k) == \E p \in 1..Len(d) : d[p].key = k

\* d[k] = d.get(k, 0) + 1
ODictIncr(d, k) ==
    IF ODictHas(d, k)
    THEN [p \in 1..Len(d) |->
             IF d[p].key = k THEN [d[p] EXCEPT !.count = @ + 1] ELSE d[p]]
    ELSE Append(d, [key |-> k, count |-> 1])

\* Python's order on tuples of integers (and, through the code points of its
\* characters, on strings): lexicographic, a proper prefix first.
RECURSIVE LexLess(_, _)
LexLess(a, b) ==
    IF b = <<>> THEN FALSE
    ELSE IF a = <<>> THEN TRUE
    ELSE IF a[1] < b[1] THEN TRUE
    ELSE IF a[1] > b[1] THEN FALSE
    ELSE LexLess(Tail(a), Tail(b))

\* x put into a sequence sorted by key, after every item whose key is not
\* greater (x came later in the input: the sort is stable).
RECURSIVE InsertByKey(_, _)
InsertByKey(sorted, x) ==
    IF sorted = <<>> THEN <<x>>
    ELSE IF LexLess(x.key, Head(sorted).key) THEN <<x>> \o sorted
    ELSE <<Head(sorted)>> \o InsertByKey(Tail(sorted), x)

RECURSIVE SortKeyed(_)
SortKeyed(keyed) ==
    IF keyed = <<>> THEN <<>>
    ELSE InsertByKey(SortKeyed(SubSeq(keyed, 1, Len(keyed) - 1)), keyed[Len(keyed)])

\* sorted(seq, key=...), keys[p] being the key of seq[p]
Sorted(seq, keys) ==
    LET res == SortKeyed([p \in 1..Len(seq) |-> [key |-> keys[p], item |-> seq[p]]])
    IN  [p \in 1..Len(res) |-> res[p].item]

(***************************************************************************)
(* Dashboard Aggregator: breakdown by environmental site                   *)
(* (build_dashboard_data.py, main, lines 161-180).  A row of this          *)
(* specification is the row's "environmental site" column (None when the   *)
(* column is missing).                                                     *)
(***************************************************************************)
Other == <<"O", "t", "h", "e", "r">>
Unknown == <<"U", "n", "k", "n", "o", "w", "n">>

\* [:8]
TopN == 8

\* x or "Unknown"
OrUnknown(x) == IF x = <<>> THEN Unknown ELSE x

\* Lines 165-167
TopSites(counts) ==
    LET ordered == Sorted(counts, [p \in 1..Len(counts) |-> <<0 - counts[p].count>>])
    IN  [p \in 1..Min(TopN, Len(ordered)) |-> ordered[p].key]

\* cat = site if site in top_sites else "Other"
Category(site, top) == IF \E p \in 1..Len(top) : top[p] = site THEN site ELSE Other

\* Lines 174-180
Breakdown(counts) ==
    LET ordered ==
            Sorted(counts,
                   [p \in 1..Len(counts) |->
                       << IF Lower(counts[p].key) = Lower(Other) THEN 1 ELSE 0,
                          0 - counts[p].count >>])
    IN  [p \in 1..Len(ordered) |->
            [category |-> ordered[p].key, value |-> ordered[p].count]]

\* Values of the site column.  Seven rows of distinct sites may precede the
\* rows drawn from SiteInputs, so that more than TopN labels occur.
SiteInputs ==
    { Other,
      <<"o", "t", "h", "e", "r">>,
      <<"A">>,
      <<"B", " ", "[", "x", "]">>,
      <<>>,
      <<"C", " ", "[", "x">>,
      None }
SevenSites ==
    << <<"s", "1">>, <<"s", "2">>, <<"s", "3">>, <<"s", "4">>,
       <<"s", "5">>, <<"s", "6">>, <<"s", "7">> >>
MaxSiteRows == 3

\* Line 163: trim_brackets(row.get("environmental site")) is called.
BreakCountCall ==
    /\ pc = "count"
    /\ idx <= Len(rows)
    /\ s' = rows[idx]
    /\ IF rows[idx] = None
       THEN /\ site_counts' = ODictIncr(site_counts, OrUnknown(<<>>))
            /\ idx' = idx + 1
            /\ UNCHANGED <<pc, out>>
       ELSE /\ out' = TrimEnter(rows[idx])
            /\ pc' = "count_trim"
            /\ UNCHANGED <<site_counts, idx>>
    /\ UNCHANGED <<rows, input, ret1, ret2, top_sites, category_counts,
                   breakdown, growthVars, covVars, parseVars, provVars, quantVars>>

\* Lines 163-164: the call returns and the site is counted.
BreakCountRet ==
    /\ pc = "count_trim"
    /\ ~Contains(out, "[")
    /\ site_counts' = ODictIncr(site_counts, OrUnknown(TrimReturn(out)))
    /\ idx' = idx + 1
    /\ pc' = "count"
    /\ UNCHANGED <<rows, trimVars, top_sites, category_counts, breakdown,
                   growthVars, covVars, parseVars, provVars, quantVars>>

\* Lines 165-168
BreakTop ==
    /\ pc = "count"
    /\ idx > Len(rows)
    /\ top_sites' = TopSites(site_counts)
    /\ idx' = 1
    /\ pc' = "cat"
    /\ UNCHANGED <<rows, trimVars, site_counts, category_counts, breakdown,
                   growthVars, covVars, parseVars, provVars, quantVars>>

\* Line 170: trim_brackets is called again for the row.
BreakCatCall ==
    /\ pc = "cat"
    /\ idx <= Len(rows)
    /\ s' = rows[idx]
    /\ IF rows[idx] = None
       THEN /\ category_counts' =
                   ODictIncr(category_counts, Category(OrUnknown(<<>>), top_sites))
            /\ idx' = idx + 1
            /\ UNCHANGED <<pc, out>>
       ELSE /\ out' = TrimEnter(rows[idx])
            /\ pc' = "cat_trim"
            /\ UNCHANGED <<category_counts, idx>>
    /\ UNCHANGED <<rows, input, ret1, ret2, site_counts, top_sites, breakdown,
                   growthVars, covVars, parseVars, provVars, quantVars>>

\* Lines 170-172
BreakCatRet ==
    /\ pc = "cat_trim"
    /\ ~Contains(out, "[")
    /\ category_counts' =
           ODictIncr(category_counts,
                     Category(OrUnknown(TrimReturn(out)), top_sites))
    /\ idx' = idx + 1
    /\ pc' = "cat"
    /\ UNCHANGED <<rows, trimVars, site_counts, top_sites, breakdown,
                   growthVars, covVars, parseVars, provVars, quantVars>>

\* Lines 173-180, and the payload that carries the breakdown (line 232)
BreakSort ==
    /\ pc = "cat"
    /\ idx > Len(rows)
    /\ breakdown' = Breakdown(category_counts)
    /\ pc' = "done"
    /\ UNCHANGED <<rows, idx, trimVars, site_counts, top_sites, category_counts,
                   growthVars, covVars, parseVars, provVars, quantVars>>

InitBreak ==
    /\ pc = "count" /\ idx = 1
    /\ \E base \in {<<>>, SevenSites} :
       \E more \in StringsUpTo(SiteInputs, MaxSiteRows) : rows = base \o more
    /\ TrimIdle /\ BreakIdle
    /\ GrowthIdle /\ CovIdle /\ ParseIdle /\ ProvIdle /\ QuantIdle

NextBreak ==
    \/ BreakCountCall \/ TrimLoop \/ BreakCountRet \/ BreakTop
    \/ BreakCatCall \/ BreakCatRet \/ BreakSort

SpecBreak == InitBreak /\ [][NextBreak]_vars

(***************************************************************************)
(* Properties of the breakdown                                             *)
(***************************************************************************)
\* The normalized label of a site value whose trim_brackets call returned:
\* the loop run to its end, blank replaced by "Unknown".
RECURSIVE TrimFixed(_)
TrimFixed(o) == IF Contains(o, "[") THEN TrimFixed(ReSub(o)) ELSE strip(o)
LabelOf(site) ==
    IF site = None \/ TrimFixed(strip(site)) = <<>> THEN Unknown
    ELSE TrimFixed(strip(site))

Labels == {LabelOf(rows[i]) : i \in 1..Len(rows)}
LabelCount(l) == Cardinality({i \in 1..Len(rows) : LabelOf(rows[i]) = l})

RECURSIVE SumValues(_)
SumValues(entries) ==
    IF entries = <<>> THEN 0 ELSE Head(entries).value + SumValues(Tail(entries))

RECURSIVE SumCounts(_)
SumCounts(labelSet) ==
    IF labelSet = {} THEN 0
    ELSE LET l == CHOOSE x \in labelSet : TRUE
         IN  LabelCount(l) + SumCounts(labelSet \ {l})

\* C3: the "Other" entry of the breakdown, when there is one, is its last
\* element whatever its count, and the entries before it are in descending
\* order of count.
OtherIsLast ==
    pc = "done" =>
        \A k \in 1..Len(breakdown) :
            breakdown[k].category = Other =>
                /\ k = Len(breakdown)
                /\ \A i, j \in 1..(k - 1) :
                       i < j => breakdown[i].value >= breakdown[j].value

\* The labels kept as categories of their own.
Kept == {top_sites[p] : p \in 1..Len(top_sites)}

\* C4: each of the 8 most frequent labels is an entry of its own whose value
\* is the number of records with that label; the records of every other
\* label are counted in "Other"; no label counted in "Other" is more
\* frequent than a kept one; and the values sum to the number of records.
TopEightKeepOwnEntry ==
    pc = "done" =>
        /\ Kept \subseteq Labels
        /\ Cardinality(Kept) = Min(TopN, Cardinality(Labels))
        /\ \A l \in Kept : \A m \in Labels \ Kept : LabelCount(l) >= LabelCount(m)
        /\ \A l \in Kept :
               /\ Cardinality({k \in 1..Len(breakdown) : breakdown[k].category = l}) = 1
               /\ \A k \in 1..Len(breakdown) :
                      breakdown[k].category = l => breakdown[k].value = LabelCount(l)
        /\ Labels \ Kept # {} =>
               \E k \in 1..Len(breakdown) :
                   /\ breakdown[k].category = Other
                   /\ breakdown[k].value = SumCounts(Labels \ Kept)
        /\ SumValues(breakdown) = Len(rows)

(***************************************************************************)
(* load_province_coords (build_dashboard_data.py, lines 73-91)             *)
(***************************************************************************)
\* float(x) for a csv field: TypeError for None, ValueError for a string
\* that is no number (both make the row be skipped).  The fields of the
\* inputs are decimals of the form -?\d+(\.\d+)? or no numbers at all.
FloatParses(x) ==
    x # None /\ NumEnd(strip(x)) # 0 /\ NumEnd(strip(x)) = Len(strip(x))
PyFloat(x) == FloatOfDecimal(strip(x))

\* str.split(sep)[0]: the part of str before the first occurrence of sep
SplitHead(str, sep) ==
    IF IsSubstr(sep, str)
    THEN LET k == CHOOSE k \in 0..(Len(str) - Len(sep)) :
                     /\ SubSeq(str, k + 1, k + Len(sep)) = sep
                     /\ \A j \in 0..(k - 1) : SubSeq(str, j + 1, j + Len(sep)) # sep
         IN  SubSeq(str, 1, k)
    ELSE str

\* coords[k] = v
DictSet(dict, k, v) ==
    IF k \in DOMAIN dict THEN [dict EXCEPT ![k] = v] ELSE dict @@ (k :> v)

\* Lines 79-90: the body of `for row in csv.DictReader(f)`.
LoadRow(dict, row) ==
    LET name == strip(OrEmpty(row.Province)) IN
    IF name = <<>> THEN dict
    ELSE IF ~FloatParses(row.Latitude) \/ ~FloatParses(row.Longitude) THEN dict
    ELSE LET lat   == PyFloat(row.Latitude)
             lon   == PyFloat(row.Longitude)
             short == strip(SplitHead(name, <<" ", "[">>))
             named == DictSet(dict, name, <<lat, lon>>)
         IN  IF short # <<>> /\ short # name
             THEN DictSet(named, short, <<lat, lon>>)
             ELSE named

\* The dict the function returns for a file with these rows.
RECURSIVE load_province_coords(_)
load_province_coords(tbl) ==
    IF tbl = <<>> THEN <<>>
    ELSE LoadRow(load_province_coords(SubSeq(tbl, 1, Len(tbl) - 1)), tbl[Len(tbl)])

Ontario == <<"O", "n", "t", "a", "r", "i", "o">>
OntarioCA == Ontario \o <<" ", "[", "C", "A", "-", "O", "N", "]">>
YukonCA == <<" ", "Y", "u", "k", "o", "n", " ", "[", "C", "A", "-", "Y", "T", "]", " ">>

ProvNames == {Ontario, OntarioCA, YukonCA, <<>>}
ProvLatLon ==
    { << <<"4", "3", ".", "7">>, <<"-", "7", "9", ".", "4">> >>,
      << <<"4", "5", ".", "4">>, <<"-", "7", "5", ".", "7">> >>,
      << <<"n", "/", "a">>, <<"1">> >>,
      << <<"0">>, None >> }
ProvRows ==
    {[Province |-> n, Latitude |-> c[1], Longitude |-> c[2]] :
        n \in ProvNames, c \in ProvLatLon}
MaxProvRows == 2

\* Lines 74-76: the reference file is missing.
ProvMissing ==
    /\ pc = "open"
    /\ ~exists
    /\ coords' = <<>>
    /\ pc' = "done"
    /\ UNCHANGED <<rows, idx, table, exists, trimVars, growthVars, breakVars,
                   covVars, parseVars, quantVars>>

\* Lines 74-77: the file is opened.
ProvOpen ==
    /\ pc = "open"
    /\ exists
    /\ coords' = <<>>
    /\ pc' = "read"
    /\ UNCHANGED <<rows, idx, table, exists, trimVars, growthVars, breakVars,
                   covVars, parseVars, quantVars>>

\* Lines 78-90
ProvRow ==
    /\ pc = "read"
    /\ idx <= Len(table)
    /\ coords' = LoadRow(coords, table[idx])
    /\ idx' = idx + 1
    /\ UNCHANGED <<pc, rows, table, exists, trimVars, growthVars, breakVars,
                   covVars, parseVars, quantVars>>

\* Line 91
ProvReturn ==
    /\ pc = "read"
    /\ idx > Len(table)
    /\ pc' = "done"
    /\ UNCHANGED <<rows, idx, provVars, trimVars, growthVars, breakVars,
                   covVars, parseVars, quantVars>>

InitProv ==
    /\ pc = "open" /\ rows = <<>> /\ idx = 1
    /\ exists \in BOOLEAN
    /\ table \in StringsUpTo(ProvRows, MaxProvRows)
    /\ (~exists => table = <<>>)
    /\ coords = <<>>
    /\ TrimIdle /\ GrowthIdle /\ BreakIdle /\ CovIdle /\ ParseIdle /\ QuantIdle

NextProv == ProvMissing \/ ProvOpen \/ ProvRow \/ ProvReturn

SpecProv == InitProv /\ [][NextProv]_vars

\* The rows of the table that are registered: named, with two numbers.
Registered(row) ==
    /\ strip(OrEmpty(row.Province)) # <<>>
    /\ FloatParses(row.Latitude) /\ FloatParses(row.Longitude)

\* The portion of a name before its bracketed suffix.
RECURSIVE UpToBracket(_)
UpToBracket(str) ==
    IF str = <<>> \/ Head(str) = "[" THEN <<>>
    ELSE <<Head(str)>> \o UpToBracket(Tail(str))
BeforeBracket(name) == strip(UpToBracket(name))

\* C9: after the table is loaded, every entry's full name and the portion of
\* that name before its bracketed suffix resolve to the same coordinate.
FullAndShortNameAgree ==
    (pc = "done" /\ exists) =>
        \A k \in 1..Len(table) :
            Registered(table[k]) =>
                LET full == strip(table[k].Province) IN
                /\ full \in DOMAIN coords
                /\ BeforeBracket(full) \in DOMAIN coords
                /\ coords[full] = coords[BeforeBracket(full)]

(***************************************************************************)
(* Dashboard Aggregator: coverage points                                   *)
(* (build_dashboard_data.py, main, lines 100, 109, 125-138, 182-188).      *)
(* A row of this specification holds the three columns these lines read.   *)
(***************************************************************************)
DigitChar(n) ==
    CASE n = 0 -> "0" [] n = 1 -> "1" [] n = 2 -> "2" [] n = 3 -> "3"
      [] n = 4 -> "4" [] n = 5 -> "5" [] n = 6 -> "6" [] n = 7 -> "7"
      [] n = 8 -> "8" [] n = 9 -> "9"

\* str(n) for n >= 0
RECURSIVE DigitsOfInt(_)
DigitsOfInt(n) ==
    IF n < 10 THEN <<DigitChar(n)>>
    ELSE DigitsOfInt(n \div 10) \o <<DigitChar(n % 10)>>

\* The decimal places of a fraction given in units of 1/Scale, as `places`
\* digits with the trailing zeros dropped.
RECURSIVE FracDigitsOf(_, _)
FracDigitsOf(frac, places) ==
    IF frac = 0 \/ places = 0 THEN <<>>
    ELSE <<DigitChar(frac \div (10 ^ (places - 1)))>>
         \o FracDigitsOf(frac % (10 ^ (places - 1)), places - 1)

\* repr(f), which is how an f-string formats a float: "-0.0", "45.5", "10.0"
ReprFloat(f) ==
    (IF f[1] = "-" THEN <<"-">> ELSE <<>>)
    \o DigitsOfInt(f[2] \div Scale)
    \o <<".">>
    \o (IF f[2] % Scale = 0 THEN <<"0">> ELSE FracDigitsOf(f[2] % Scale, FracDigits))

\* key = f"{lat},{lon}"
CoordKey(lat, lon) == ReprFloat(lat) \o <<",">> \o ReprFloat(lon)

\* key.split(",", 1)
KeyLat(key) == SplitHead(key, <<",">>)
KeyLon(key) == SubSeq(key, Len(KeyLat(key)) + 2, Len(key))

\* Lines 125-136: the coordinate of a row, <<lat, lon>>, each a float or None.
ResolveCoord(row, province) ==
    LET lat == parse_lat_lon(row.lat, "lat")
        lon == parse_lat_lon(row.lon, "lon")
        state_province == strip(OrEmpty(row.prov))
        fallback == IF state_province # <<>>
                    THEN Get(province, state_province, None)
                    ELSE None
    IN  IF (lat = None \/ lon = None) /\ fallback # None
        THEN fallback
        ELSE <<lat, lon>>

\* Lines 136-138
CountCoord(counts, coord) ==
    IF coord[1] # None /\ coord[2] # None
    THEN ODictIncr(counts, CoordKey(coord[1], coord[2]))
    ELSE counts

\* Lines 182-188
CoveragePoints(counts) ==
    Sorted([p \in 1..Len(counts) |->
               [latitude  |-> PyFloat(KeyLat(counts[p].key)),
                longitude |-> PyFloat(KeyLon(counts[p].key)),
                count     |-> counts[p].count]],
           [p \in 1..Len(counts) |-> <<0 - counts[p].count>>])

CovLats ==
    { <<"0", " ", "N">>, <<"0", " ", "S">>, <<"4", "5", ".", "5", " ", "N">>, <<>> }
CovLons == { <<"1", "0", " ", "E">>, <<"-", "-">> }
CovProvs == { Ontario, <<>> }
CovRows == {[lat |-> a, lon |-> o, prov |-> n] : a \in CovLats, o \in CovLons, n \in CovProvs}
MaxCovRows == 3

\* The reference files the runs are made with: none, and one with a row.
ProvinceFiles ==
    { <<>>,
      << [Province  |-> OntarioCA,
          Latitude  |-> <<"4", "3", ".", "7">>,
          Longitude |-> <<"-", "7", "9", ".", "4">>] >> }

\* One pass of `for row in rows` (lines 125-138).
CovScanRow ==
    /\ pc = "scan"
    /\ idx <= Len(rows)
    /\ coord_counts' = CountCoord(coord_counts, ResolveCoord(rows[idx], province_coords))
    /\ idx' = idx + 1
    /\ UNCHANGED <<pc, rows, province_coords, coverage_points, trimVars,
                   growthVars, breakVars, parseVars, provVars, quantVars>>

\* Lines 182-188, and the payload that carries the points (line 233)
CovBuild ==
    /\ pc = "scan"
    /\ idx > Len(rows)
    /\ coverage_points' = CoveragePoints(coord_counts)
    /\ pc' = "done"
    /\ UNCHANGED <<rows, idx, province_coords, coord_counts, trimVars,
                   growthVars, breakVars, parseVars, provVars, quantVars>>

InitCov ==
    /\ pc = "scan" /\ idx = 1
    /\ rows \in StringsUpTo(CovRows, MaxCovRows)
    /\ \E file \in ProvinceFiles : province_coords = load_province_coords(file)
    /\ coord_counts = <<>> /\ coverage_points = <<>>
    /\ TrimIdle /\ GrowthIdle /\ BreakIdle /\ ParseIdle /\ ProvIdle /\ QuantIdle

NextCov == CovScanRow \/ CovBuild

SpecCov == InitCov /\ [][NextCov]_vars

\* A record has a resolvable coordinate when both axes parse, or else when
\* its state/province name is a key of the province table.
Resolvable(row) ==
    \/ parse_lat_lon(row.lat, "lat") # None /\ parse_lat_lon(row.lon, "lon") # None
    \/ strip(OrEmpty(row.prov)) \in DOMAIN province_coords

RECURSIVE SumPointCounts(_)
SumPointCounts(points) ==
    IF points = <<>> THEN 0 ELSE Head(points).count + SumPointCounts(Tail(points))

\* C5: the counts of the coverage points sum to the number of records with a
\* resolvable coordinate, and no two points have the same (latitude,
\* longitude) pair.
CoverageCountsAndDistinct ==
    pc = "done" =>
        /\ SumPointCounts(coverage_points)
              = Cardinality({i \in 1..Len(rows) : Resolvable(rows[i])})
        /\ \A p, q \in 1..Len(coverage_points) :
               p # q =>
                   ~ /\ FloatEq(coverage_points[p].latitude, coverage_points[q].latitude)
                     /\ FloatEq(coverage_points[p].longitude, coverage_points[q].longitude)

(***************************************************************************)
(* Quantitative Nester (build_quant_tsv.py)                                *)
(***************************************************************************)
\* ord(c), for the characters of the inputs
Ord(c) ==
    IF c \in Digits THEN 48 + DigitVal(c)
    ELSE IF \E k \in 1..26 : Uppers[k] = c
         THEN 64 + (CHOOSE k \in 1..26 : Uppers[k] = c)
    ELSE IF \E k \in 1..26 : Lowers[k] = c
         THEN 96 + (CHOOSE k \in 1..26 : Lowers[k] = c)
    ELSE CASE c = " " -> 32 [] c = "(" -> 40 [] c = ")" -> 41 [] c = "-" -> 45
           [] c = "." -> 46 [] c = "/" -> 47 [] c = "[" -> 91 [] c = "]" -> 93
Ords(str) == [k \in 1..Len(str) |-> Ord(str[k])]

\* Line 12-14: one pass of the substitution, then strip.
strip_brackets(str) == strip(ReSub(str))

DATE_COL == "sample collection start date"
NEST_ORDER ==
    << "geo loc name (state/province/territory)",
       "geo loc name (city)",
       "geo loc name (site)",
       "assay type",
       "target taxonomic name",
       "gene symbol",
       "diagnostic measurement unit",
       "sample collection start date" >>
VALUE_COL == "diagnostic measurement value"
METADATA_COLUMNS ==
    << "sample collection start date",
       "geo loc name (site)",
       "geo loc name (state/province/territory)",
       "geo loc name (city)",
       "organism",
       "assay type" >>
TARGET_BASE_NAMES ==
    << "target taxonomic name",
       "assay target name",
       "gene symbol",
       "diagnostic target presence",
       "diagnostic measurement value",
       "diagnostic measurement unit",
       "diagnostic measurement method" >>

Range(seq) == {seq[k] : k \in 1..Len(seq)}

\* col_name = f"{base} {target_num}"
TargetNums == <<"1", "2", "3">>
TargetCol(base, target_num) == base \o " " \o target_num

\* dict.get(col) of a row or sub-record
RowGet(r, col) == IF col \in DOMAIN r THEN r[col] ELSE None

\* Lines 73-79: the sub-record of a row for one target slot.
OutRow(row, target_num, meta_ok) ==
    [col \in meta_ok \cup {"target"} \cup Range(TARGET_BASE_NAMES) |->
        IF col = "target" THEN <<target_num>>
        ELSE IF col \in meta_ok THEN strip(OrEmpty(RowGet(row, col)))
        ELSE strip(OrEmpty(RowGet(row, TargetCol(col, target_num))))]

\* Lines 70-80
RECURSIVE Expand(_, _)
Expand(rws, meta_ok) ==
    IF rws = <<>> THEN <<>>
    ELSE [t \in 1..3 |-> OutRow(Head(rws), TargetNums[t], meta_ok)]
         \o Expand(Tail(rws), meta_ok)

\* Lines 83-84
has_target_info(r) ==
    \E b \in 1..Len(TARGET_BASE_NAMES) :
        strip(OrEmpty(RowGet(r, TARGET_BASE_NAMES[b]))) # <<>>

\* Line 86
RECURSIVE FilterRows(_)
FilterRows(rs) ==
    IF rs = <<>> THEN <<>>
    ELSE (IF has_target_info(Head(rs)) THEN <<Head(rs)>> ELSE <<>>)
         \o FilterRows(Tail(rs))

\* Lines 89-91: (not bool(d), d) as a tuple of integers
sort_key(r) ==
    LET d == strip(OrEmpty(RowGet(r, DATE_COL)))
    IN  <<IF d = <<>> THEN 1 ELSE 0>> \o Ords(d)

NoDate == <<"(", "n", "o", " ", "d", "a", "t", "e", ")">>
Blank == <<"(", "b", "l", "a", "n", "k", ")">>

\* Lines 121-127
path_vals(r) ==
    [k \in 1..Len(NEST_ORDER) |->
        LET rawv == strip(OrEmpty(RowGet(r, NEST_ORDER[k])))
            v == strip_brackets(rawv)
        IN  IF v # <<>> THEN v
            ELSE IF NEST_ORDER[k] = DATE_COL THEN NoDate ELSE Blank]

\* Line 128
value_val(r) ==
    LET v == strip_brackets(strip(OrEmpty(RowGet(r, VALUE_COL))))
    IN  IF v # <<>> THEN v ELSE Blank

\* Lines 129-132: the defaultdicts create the levels of the path on demand;
\* the empty path is the leaf list.  (The first definition replaces the list
\* at the leaf instead of appending to it.)
RECURSIVE TreeAppendReplacing(_, _, _)
TreeAppendReplacing(tree, path, v) ==
    IF path = <<>> THEN <<v>>
    ELSE DictSet(tree, Head(path),
                 TreeAppendReplacing(Get(tree, Head(path), <<>>), Tail(path), v))

RECURSIVE TreeAppend(_, _, _)
TreeAppend(tree, path, v) ==
    IF path = <<>> THEN Append(tree, v)
    ELSE DictSet(tree, Head(path),
                 TreeAppend(Get(tree, Head(path), <<>>), Tail(path), v))

\* The keys of a dict, in some order.
RECURSIVE SetToSeq(_)
SetToSeq(S) ==
    IF S = {} THEN <<>>
    ELSE LET x == CHOOSE x \in S : TRUE IN <<x>> \o SetToSeq(S \ {x})

\* Lines 134-136: (k in ("(no date)", "(blank)"), k) as a tuple of integers
ItemSortKey(k) == <<IF k \in {NoDate, Blank} THEN 1 ELSE 0>> \o Ords(k)

\* Lines 138-148.  A dict of the result is the sequence of its <<key, value>>
\* items in their order; a list becomes the mapping of its indices, from 0.
\* The lists are the objects `depth` = 0 levels below.
RECURSIVE to_sorted_dict(_, _)
to_sorted_dict(obj, depth) ==
    IF depth = 0 THEN [i \in 0..(Len(obj) - 1) |-> obj[i + 1]]
    ELSE LET keys == SetToSeq(DOMAIN obj) IN
         Sorted([p \in 1..Len(keys) |->
                    <<keys[p], to_sorted_dict(obj[keys[p]], depth - 1)>>],
                [p \in 1..Len(keys) |-> ItemSortKey(keys[p])])

\* The columns of a csv file that has them all.
AllColumns ==
    Range(METADATA_COLUMNS)
    \cup {TargetCol(TARGET_BASE_NAMES[b], TargetNums[n]) : b \in 1..7, n \in 1..3}

\* The target columns of one slot: empty, with only a blank, a full target,
\* and a target with nothing but a bracketed measurement value.
SlotEmpty == [b \in Range(TARGET_BASE_NAMES) |-> <<>>]
SlotBlank == [SlotEmpty EXCEPT !["diagnostic target presence"] = <<" ">>]
SlotFull ==
    [SlotEmpty EXCEPT !["target taxonomic name"] = <<"T">>,
                      !["gene symbol"] = <<"g">>,
                      !["diagnostic measurement unit"] = <<"u">>,
                      !["diagnostic measurement value"] = <<"5">>]
SlotValue ==
    [SlotEmpty EXCEPT !["diagnostic measurement value"] = <<"7", " ", "[", "x", "]">>]

QuantSlots ==
    { <<SlotEmpty, SlotEmpty, SlotEmpty>>,
      <<SlotFull, SlotBlank, SlotEmpty>>,
      <<SlotFull, SlotFull, SlotValue>>,
      <<SlotValue, SlotEmpty, SlotFull>> }
QuantProvs == { <<"O", "N">>, <<"O", "N", " ", "[", "x", "]">> }
QuantDates == { <<"2", "0", "2", "1">>, <<>> }

\* The row of a file with the columns fnames.
QuantRow(prov, date, slots, fnames) ==
    [col \in fnames |->
        IF col = DATE_COL THEN date
        ELSE IF col = "geo loc name (state/province/territory)" THEN prov
        ELSE IF col = "geo loc name (site)" THEN <<"S">>
        ELSE IF col = "geo loc name (city)" THEN <<"c">>
        ELSE IF col = "organism" THEN <<"o">>
        ELSE IF col = "assay type" THEN <<"q">>
        ELSE LET n == CHOOSE n \in 1..3 :
                         \E b \in 1..7 : TargetCol(TARGET_BASE_NAMES[b], TargetNums[n]) = col
                 b == CHOOSE b \in 1..7 :
                         TargetCol(TARGET_BASE_NAMES[b], TargetNums[n]) = col
             IN  slots[n][TARGET_BASE_NAMES[b]]]
QuantRows(fnames) ==
    {QuantRow(p, d, sl, fnames) : p \in QuantProvs, d \in QuantDates, sl \in QuantSlots}
MaxQuantRows == 2

\* meta_ok = [c for c in METADATA_COLUMNS if c in fieldnames]
MetaOk == Range(METADATA_COLUMNS) \cap fieldnames

\* Lines 70-80
QuantExpand ==
    /\ pc = "expand"
    /\ out_rows' = Expand(rows, MetaOk)
    /\ pc' = "filter"
    /\ UNCHANGED <<rows, idx, fieldnames, nested, out_data, trimVars, growthVars,
                   breakVars, covVars, parseVars, provVars>>

\* Lines 82-86
QuantFilter ==
    /\ pc = "filter"
    /\ out_rows' = FilterRows(out_rows)
    /\ pc' = "sort"
    /\ UNCHANGED <<rows, idx, fieldnames, nested, out_data, trimVars, growthVars,
                   breakVars, covVars, parseVars, provVars>>

\* Lines 88-93
QuantSort ==
    /\ pc = "sort"
    /\ out_rows' = Sorted(out_rows, [p \in 1..Len(out_rows) |-> sort_key(out_rows[p])])
    /\ idx' = 1
    /\ pc' = "fold"
    /\ UNCHANGED <<rows, fieldnames, nested, out_data, trimVars, growthVars,
                   breakVars, covVars, parseVars, provVars>>

\* One pass of `for r in out_rows` (lines 120-132).
QuantFold ==
    /\ pc = "fold"
    /\ idx <= Len(out_rows)
    /\ nested' = TreeAppend(nested, path_vals(out_rows[idx]), value_val(out_rows[idx]))
    /\ idx' = idx + 1
    /\ UNCHANGED <<pc, rows, fieldnames, out_rows, out_data, trimVars, growthVars,
                   breakVars, covVars, parseVars, provVars>>

\* Lines 134-150
QuantRender ==
    /\ pc = "fold"
    /\ idx > Len(out_rows)
    /\ out_data' = to_sorted_dict(nested, Len(NEST_ORDER))
    /\ pc' = "done"
    /\ UNCHANGED <<rows, idx, fieldnames, out_rows, nested, trimVars, growthVars,
                   breakVars, covVars, parseVars, provVars>>

InitQuant ==
    /\ pc = "expand" /\ idx = 1
    /\ fieldnames \in {AllColumns, AllColumns \ {"geo loc name (city)"}}
    /\ rows \in StringsUpTo(QuantRows(fieldnames), MaxQuantRows)
    /\ out_rows = <<>> /\ nested = <<>> /\ out_data = <<>>
    /\ TrimIdle /\ GrowthIdle /\ BreakIdle /\ CovIdle /\ ParseIdle /\ ProvIdle

NextQuant == QuantExpand \/ QuantFilter \/ QuantSort \/ QuantFold \/ QuantRender

SpecQuant == InitQuant /\ [][NextQuant]_vars

(***************************************************************************)
(* Properties of the nested grouping                                       *)
(***************************************************************************)
\* The leaves of a rendered tree, each <<path, mapping>>, as a sequence.
RECURSIVE LeavesOf(_, _, _)
LeavesOf(rendered, depth, prefix) ==
    IF depth = 0 THEN << <<prefix, rendered>> >>
    ELSE IF rendered = <<>> THEN <<>>
    ELSE LeavesOf(Head(rendered)[2], depth - 1, Append(prefix, Head(rendered)[1]))
         \o LeavesOf(Tail(rendered), depth, prefix)

Leaves == LeavesOf(out_data, Len(NEST_ORDER), <<>>)

\* The target sub-records: <<i, n>> is slot n of row i.  One survives when
\* one of its target-specific fields is not empty.
SlotField(i, n, base) ==
    strip(OrEmpty(RowGet(rows[i], TargetCol(base, TargetNums[n]))))
Survivors ==
    {sr \in (1..Len(rows)) \X (1..3) :
        \E b \in 1..7 : SlotField(sr[1], sr[2], TARGET_BASE_NAMES[b]) # <<>>}

\* The 8-part key path of a sub-record, brackets stripped, sentinels put in.
KeyPart(sr, col) ==
    LET field == IF col \in Range(TARGET_BASE_NAMES)
                 THEN SlotField(sr[1], sr[2], col)
                 ELSE strip(OrEmpty(RowGet(rows[sr[1]], col)))
    IN  IF strip_brackets(field) # <<>> THEN strip_brackets(field)
        ELSE IF col = DATE_COL THEN NoDate ELSE Blank
KeyPath(sr) == [k \in 1..Len(NEST_ORDER) |-> KeyPart(sr, NEST_ORDER[k])]

RECURSIVE SumLeafLengths(_)
SumLeafLengths(leaves) ==
    IF leaves = <<>> THEN 0
    ELSE Cardinality(DOMAIN Head(leaves)[2]) + SumLeafLengths(Tail(leaves))

\* C7: every leaf of the rendered tree is a mapping with keys 0..n-1, n being
\* the number of surviving sub-records whose key path is the leaf's path; so
\* the leaf lengths sum to the number of surviving sub-records, none of which
\* is lost or counted in two leaves.
LeafLengthsCountSubRecords ==
    pc = "done" =>
        /\ \A l \in 1..Len(Leaves) :
               DOMAIN Leaves[l][2]
                   = 0..(Cardinality({sr \in Survivors : KeyPath(sr) = Leaves[l][1]}) - 1)
        /\ \A l, m \in 1..Len(Leaves) : Leaves[l][1] = Leaves[m][1] => l = m
        /\ \A sr \in Survivors : \E l \in 1..Len(Leaves) : Leaves[l][1] = KeyPath(sr)
        /\ SumLeafLengths(Leaves) = Cardinality(Survivors)

\* A finished run in which sub-records of two rows, one with a bracketed
\* province name, share a leaf, and another leaf exists.
LeafLengthsCountSubRecordsWitness ==
    /\ pc = "done"
    /\ Len(Leaves) >= 2
    /\ \E l \in 1..Len(Leaves) :
           /\ Cardinality(DOMAIN Leaves[l][2]) >= 3
           /\ \E sr, sq \in Survivors :
                  /\ sr[1] # sq[1]
                  /\ KeyPath(sr) = Leaves[l][1] /\ KeyPath(sq) = Leaves[l][1]
                  /\ RowGet(rows[sr[1]], NEST_ORDER[1]) # RowGet(rows[sq[1]], NEST_ORDER[1])

====
